---- MODULE Spec2Model ----
(***************************************************************************)
(* timeduration::CTimePeriod and its nested CScanner                       *)
(* (src/include/timeduration/timeduration.hpp).                            *)
(*                                                                         *)
(* A std::string is a sequence of one-character strings.  C++ indexes      *)
(* from 0, TLA+ sequences from 1: m_Source[i] is CharAt(src, i).           *)
(*                                                                         *)
(* Two state machines share the variables:                                 *)
(*   Spec      - one call of CTimePeriod::Parse(from): the scanner loop,   *)
(*               one ScanToken call per step, then the summation loop;     *)
(*   ValueSpec - two CTimePeriod objects built by the four construction    *)
(*               paths, toString() of the first, and operator<=>.          *)
(***************************************************************************)
EXTENDS Integers, Sequences, FiniteSets, TLC

VARIABLES
    from,           \* Spec: the argument of Parse, copied into m_Source
    m_Start,        \* CScanner::m_Start
    m_Current,      \* CScanner::m_Current
    m_Result,       \* CScanner::m_Result, a map multiplier -> value
    Result,         \* Parse: the map returned by ScanTokens()
    visited,        \* Parse: the keys of Result the range-for has passed
    TotalDuration,  \* Parse: the local TotalDuration (count of seconds)
    pc,             \* position of the running call
    a, b,           \* ValueSpec: two CTimePeriod objects (Unbuilt before construction)
    callA, callB,   \* ValueSpec: the constructor call that built each object
    str,            \* ValueSpec: the string a.toString() returned (NoStr before)
    cmp             \* ValueSpec: the results of a == b and a <=> b (NoCmp before)

vars == <<from, m_Start, m_Current, m_Result, Result, visited, TotalDuration, pc,
          a, b, callA, callB, str, cmp>>

scanVars == <<from, m_Start, m_Current, m_Result, Result, visited, TotalDuration>>

valueVars == <<a, b, callA, callB, str, cmp>>

-----------------------------------------------------------------------------
(* Bounds of the model. *)

\* Sources of Spec are concatenations of at most MaxPieces pieces.
MaxPieces == 2

\* Sources are limited to those whose total stays at most MaxTotal seconds,
\* so that every product and sum of the run is far from the int64 limits
\* (signed overflow, and std::stoll's out_of_range, are outside the model).
MaxTotal == 2000000000

\* Largest days component among the sampled raw totals of ValueSpec.
MaxDays == 30

-----------------------------------------------------------------------------
(* Characters: <cctype> in the "C" locale. *)

DigitChars == <<"0", "1", "2", "3", "4", "5", "6", "7", "8", "9">>

NUL == "\\0"

isdigit(c) == \E i \in 1..Len(DigitChars) : DigitChars[i] = c

Letters ==
    {"a", "b", "c", "d", "e", "f", "g", "h", "i", "j", "k", "l", "m",
     "n", "o", "p", "q", "r", "s", "t", "u", "v", "w", "x", "y", "z",
     "A", "B", "C", "D", "E", "F", "G", "H", "I", "J", "K", "L", "M",
     "N", "O", "P", "Q", "R", "S", "T", "U", "V", "W", "X", "Y", "Z"}

isalpha(c) == c \in Letters

DigitValue(c) == (CHOOSE i \in 1..Len(DigitChars) : DigitChars[i] = c) - 1

\* std::string::operator[] with a 0-based index; s[size()] is the null character.
CharAt(s, i) == IF i < Len(s) THEN s[i + 1] ELSE NUL

\* std::string::substr(pos, n): n is clamped to the end of the string.
substr(s, pos, n) == SubSeq(s, pos + 1, IF pos + n > Len(s) THEN Len(s) ELSE pos + n)

\* INT64_MAX = 9223372036854775807, as std::stoll's range check reads it
Int64MaxDigits ==
    <<"9", "2", "2", "3", "3", "7", "2", "0", "3", "6", "8", "5", "4", "7", "7",
      "5", "8", "0", "7">>

RECURSIVE StripZeros(_)
StripZeros(digits) ==
    IF digits # <<>> /\ digits[1] = "0" THEN StripZeros(Tail(digits)) ELSE digits

\* x > y for two digit runs of one length without leading zeros
DigitsAbove(x, y) ==
    \E i \in 1..Len(x) :
        /\ DigitValue(x[i]) > DigitValue(y[i])
        /\ \A j \in 1..(i - 1) : x[j] = y[j]

\* std::stoll throws std::out_of_range when the run denotes more than INT64_MAX
StollThrows(digits) ==
    LET d == StripZeros(digits)
    IN  \/ Len(d) > Len(Int64MaxDigits)
        \/ Len(d) = Len(Int64MaxDigits) /\ DigitsAbove(d, Int64MaxDigits)

\* std::stoll on a run of decimal digits that is in range.
RECURSIVE stoll(_)
stoll(digits) ==
    IF digits = <<>> THEN 0
    ELSE 10 * stoll(SubSeq(digits, 1, Len(digits) - 1)) + DigitValue(digits[Len(digits)])

-----------------------------------------------------------------------------
(* CScanner *)

\* The unit table Parse hands to the scanner.
m_Tokens ==
    (<<"s">> :> 1) @@ (<<"s", "e", "c", "o", "n", "d", "s">> :> 1) @@
    (<<"m">> :> 60) @@ (<<"m", "i", "n", "u", "t", "e", "s">> :> 60) @@
    (<<"h">> :> 3600) @@ (<<"h", "o", "u", "r", "s">> :> 3600) @@
    (<<"d">> :> 86400) @@ (<<"d", "a", "y", "s">> :> 86400) @@
    (<<"m", "o">> :> 2419200) @@ (<<"m", "o", "n", "t", "h", "s">> :> 2419200) @@
    (<<"y">> :> 31536000) @@ (<<"y", "e", "a", "r", "s">> :> 31536000)

EmptyResult == [k \in {} |-> 0]

\* faulty variant of AtEnd: > for >=
AtEndOffByOne(src, cur) == cur > Len(src)

AtEnd(src, cur) == cur >= Len(src)

Peek(src, cur) == IF AtEnd(src, cur) THEN NUL ELSE CharAt(src, cur)

\* while (isdigit(Peek())) Advance();  -- the cursor after the loop
RECURSIVE AdvanceDigits(_, _)
AdvanceDigits(src, cur) ==
    IF isdigit(Peek(src, cur)) THEN AdvanceDigits(src, cur + 1) ELSE cur

\* while (isalpha(Peek())) Advance();  -- the cursor after the loop
RECURSIVE AdvanceAlpha(_, _)
AdvanceAlpha(src, cur) ==
    IF isalpha(Peek(src, cur)) THEN AdvanceAlpha(src, cur + 1) ELSE cur

\* faulty variant of AddValue: = for +=
AddValueReplace(res, Multiplier, Value) ==
    IF Multiplier \in DOMAIN res
    THEN [res EXCEPT ![Multiplier] = Value]
    ELSE res @@ (Multiplier :> Value)

\* void AddValue(int64_t Multiplier, int64_t Value)
AddValue(res, Multiplier, Value) ==
    IF Multiplier \in DOMAIN res
    THEN [res EXCEPT ![Multiplier] = @ + Value]
    ELSE res @@ (Multiplier :> Value)

\* faulty variant of AddValue(Literal, Value): m_Tokens[Literal] without the
\* contains() test, which reads 0 for a literal that is no key
AddValueLiteralNoCheck(res, Literal, Value) ==
    AddValue(res, IF Literal \in DOMAIN m_Tokens THEN m_Tokens[Literal] ELSE 0, Value)

\* void AddValue(std::string_view Literal, int64_t Value)
AddValueLiteral(res, Literal, Value) ==
    IF Literal \in DOMAIN m_Tokens
    THEN AddValue(res, m_Tokens[Literal], Value)
    ELSE res

\* faulty variant of the default unit: multiplier 1 for 60
DefaultMultiplierSeconds(res, Value) == AddValue(res, 1, Value)

\* ScanToken, the branch of an empty Literal: AddValue(60, std::stoll(Value))
AddValueDefault(res, Value) == AddValue(res, 60, Value)

\* void ScanToken(): the cursor and the accumulator after the call, entered
\* with m_Start = start = the cursor; threw when std::stoll(Value), evaluated
\* after both loops, throws std::out_of_range out of the call.
ScanToken(src, start, res) ==
    LET c      == CharAt(src, start)           \* c = Advance()
        cur1   == start + 1
    IN  IF isdigit(c)
        THEN LET cur2    == AdvanceDigits(src, cur1)
                 Value   == substr(src, start, cur2 - start)
                 Offset  == cur2
                 cur3    == AdvanceAlpha(src, cur2)
                 Literal == substr(src, Offset, cur3 - Offset)
             IN  IF StollThrows(Value)
                 THEN [cur |-> cur3, res |-> res, threw |-> TRUE]
                 ELSE [cur |-> cur3,
                       res |-> IF Literal = <<>>
                               THEN AddValueDefault(res, stoll(Value))
                               ELSE AddValueLiteral(res, Literal, stoll(Value)),
                       threw |-> FALSE]
        ELSE [cur |-> cur1, res |-> res, threw |-> FALSE]

\* ResultHolder ScanTokens(), as a function of the source: the scanner when
\* the call returns (threw FALSE, res the map returned) or is left by the
\* exception (threw TRUE).
RECURSIVE ScanTokensFrom(_, _, _)
ScanTokensFrom(src, cur, res) ==
    IF AtEnd(src, cur) THEN [cur |-> cur, res |-> res, threw |-> FALSE]
    ELSE LET t == ScanToken(src, cur, res)
         IN  IF t.threw THEN t ELSE ScanTokensFrom(src, t.cur, t.res)

ScanTokens(src) == ScanTokensFrom(src, 0, EmptyResult)

-----------------------------------------------------------------------------
(* CTimePeriod::Parse *)

\* The next entry the range-for over the std::map visits: the least key left.
NextKey(res, seen) ==
    CHOOSE k \in DOMAIN res \ seen : \A j \in DOMAIN res \ seen : k <= j

\* for (auto [Multiplier, Value] : Result) TotalDuration += Multiplier * Value
RECURSIVE SumEntries(_, _, _)
SumEntries(res, seen, total) ==
    IF DOMAIN res \ seen = {} THEN total
    ELSE LET k == NextKey(res, seen)
         IN  SumEntries(res, seen \cup {k}, total + k * res[k])

\* Parse(text) is left by std::out_of_range and returns nothing
ParseThrows(text) == ScanTokens(text).threw

\* static std::chrono::seconds Parse(std::string_view from): the count returned
Parse(text) == SumEntries(ScanTokens(text).res, {}, 0)

-----------------------------------------------------------------------------
(* CTimePeriod: construction, normalisation, formatting, comparison *)

\* C++ integer division and remainder truncate toward zero.
TruncDiv(x, y) == IF x >= 0 THEN x \div y ELSE -((-x) \div y)

TruncMod(x, y) == x - y * TruncDiv(x, y)

\* faulty variant of Validate: TotalSeconds %= 3600 left out
ValidateNoReduce(T) ==
    [built           |-> TRUE,
     m_TotalDuration |-> T,
     m_Days          |-> TruncDiv(T, 86400),
     m_Hours         |-> TruncDiv(TruncMod(T, 86400), 3600),
     m_Minutes       |-> TruncDiv(TruncMod(T, 86400), 60),
     m_Seconds       |-> TruncMod(T, 60)]

\* void Validate(): the object whose m_TotalDuration is T, after the call
Validate(T) ==
    LET t1 == TruncMod(T, 86400)
        t2 == TruncMod(t1, 3600)
    IN  [built           |-> TRUE,
         m_TotalDuration |-> T,
         m_Days          |-> TruncDiv(T, 86400),
         m_Hours         |-> TruncDiv(t1, 3600),
         m_Minutes       |-> TruncDiv(t2, 60),
         m_Seconds       |-> TruncMod(t2, 60)]

\* faulty variant of the component constructor: std::chrono::hours{minutes}
CtorComponentsMinutesAsHours(seconds, minutes, hours, days) ==
    Validate(seconds + 3600 * minutes + 3600 * hours + 86400 * days)

\* explicit CTimePeriod(int64_t seconds, int64_t minutes, int64_t hours, int64_t days)
CtorComponents(seconds, minutes, hours, days) ==
    Validate(seconds + 60 * minutes + 3600 * hours + 86400 * days)

\* explicit CTimePeriod(std::string_view from)
CtorText(text) == Validate(Parse(text))

\* explicit CTimePeriod(std::chrono::seconds duration)
CtorSeconds(duration) == Validate(duration)

\* static CTimePeriod ParseFactory(std::string_view from)
ParseFactory(text) == CtorSeconds(Parse(text))

\* std::format("{}", n) of an integer
RECURSIVE FormatNat(_)
FormatNat(n) ==
    IF n < 10 THEN <<DigitChars[n + 1]>>
    ELSE FormatNat(n \div 10) \o <<DigitChars[(n % 10) + 1]>>

Format(n) == IF n < 0 THEN <<"-">> \o FormatNat(-n) ELSE FormatNat(n)

\* faulty variant of toString: m_Hours > 1 for m_Hours > 0
toStringHoursAboveOne(p) ==
    LET r1 == IF p.m_Days > 0 THEN Format(p.m_Days) \o <<"d", " ">> ELSE <<>>
        r2 == r1 \o (IF p.m_Hours > 1 THEN Format(p.m_Hours) \o <<"h", " ">> ELSE <<>>)
        r3 == r2 \o (IF p.m_Minutes > 0 THEN Format(p.m_Minutes) \o <<"m", " ">> ELSE <<>>)
    IN  IF p.m_Seconds > 0 \/ r3 = <<>> THEN r3 \o Format(p.m_Seconds) \o <<"s">> ELSE r3

\* std::string toString() const
toString(p) ==
    LET r1 == IF p.m_Days > 0 THEN Format(p.m_Days) \o <<"d", " ">> ELSE <<>>
        r2 == r1 \o (IF p.m_Hours > 0 THEN Format(p.m_Hours) \o <<"h", " ">> ELSE <<>>)
        r3 == r2 \o (IF p.m_Minutes > 0 THEN Format(p.m_Minutes) \o <<"m", " ">> ELSE <<>>)
    IN  IF p.m_Seconds > 0 \/ r3 = <<>> THEN r3 \o Format(p.m_Seconds) \o <<"s">> ELSE r3

\* the members in declaration order, as the defaulted comparisons visit them
Members(p) == <<p.m_TotalDuration, p.m_Days, p.m_Hours, p.m_Minutes, p.m_Seconds>>

\* the members in the reverse order
MembersReversed(p) == <<p.m_Seconds, p.m_Minutes, p.m_Hours, p.m_Days, p.m_TotalDuration>>

\* three-way comparison of two member lists: the first differing member decides
ThreeWay(x, y) ==
    IF \A i \in 1..Len(x) : x[i] = y[i] THEN "equal"
    ELSE LET i == CHOOSE n \in 1..Len(x) :
                      x[n] # y[n] /\ \A j \in 1..(n - 1) : x[j] = y[j]
         IN  IF x[i] < y[i] THEN "less" ELSE "greater"

\* faulty variant of operator<=>: the members compared last to first
SpaceshipReversed(p, q) == ThreeWay(MembersReversed(p), MembersReversed(q))

\* auto operator<=>(const CTimePeriod &) const = default;
Spaceship(p, q) == ThreeWay(Members(p), Members(q))

\* the operator== the defaulted operator<=> declares: member-wise equality
Equals(p, q) == \A i \in 1..Len(Members(p)) : Members(p)[i] = Members(q)[i]

-----------------------------------------------------------------------------
(* The grammar of a source, stated on the text alone (1-based positions):  *)
(* a token is a maximal run of digits with the maximal run of letters that *)
(* follows it.                                                             *)

IsRunStart(s, i) == isdigit(s[i]) /\ (i = 1 \/ ~isdigit(s[i - 1]))

TokenStarts(s) == {i \in 1..Len(s) : IsRunStart(s, i)}

\* last position of the maximal digit run that starts at i
RunEnd(s, i) ==
    CHOOSE j \in i..Len(s) :
        /\ \A k \in i..j : isdigit(s[k])
        /\ j = Len(s) \/ ~isdigit(s[j + 1])

\* last position of the maximal letter run that follows position j (j if none)
LitEnd(s, j) ==
    CHOOSE e \in j..Len(s) :
        /\ \A k \in (j + 1)..e : isalpha(s[k])
        /\ e = Len(s) \/ ~isalpha(s[e + 1])

TokenEnd(s, i) == LitEnd(s, RunEnd(s, i))

TokenLiteral(s, i) == SubSeq(s, RunEnd(s, i) + 1, TokenEnd(s, i))

TokenText(s, i) == SubSeq(s, i, TokenEnd(s, i))

RECURSIVE Pow10(_)
Pow10(n) == IF n = 0 THEN 1 ELSE 10 * Pow10(n - 1)

RECURSIVE SumFn(_)
SumFn(f) ==
    IF DOMAIN f = {} THEN 0
    ELSE LET k == CHOOSE x \in DOMAIN f : TRUE
         IN  f[k] + SumFn([x \in DOMAIN f \ {k} |-> f[x]])

\* the number a digit run denotes: the sum of digit * 10^place
TokenValue(s, i) ==
    LET j == RunEnd(s, i)
    IN  SumFn([p \in i..j |-> DigitValue(s[p]) * Pow10(j - p)])

IsBare(s, i) == TokenLiteral(s, i) = <<>>

IsUnknown(s, i) == ~IsBare(s, i) /\ TokenLiteral(s, i) \notin DOMAIN m_Tokens

\* the multiplier a token resolves to; an unknown literal resolves to none (0)
TokenMultiplier(s, i) ==
    IF IsBare(s, i) THEN 60
    ELSE IF IsUnknown(s, i) THEN 0
    ELSE m_Tokens[TokenLiteral(s, i)]

\* the tokens of s that resolve to multiplier k, and the sum of their values
TokensOf(s, k) == {i \in TokenStarts(s) : TokenMultiplier(s, i) = k}

TokenSum(s, k) == SumFn([i \in TokensOf(s, k) |-> TokenValue(s, i)])

Multipliers(s) == {TokenMultiplier(s, i) : i \in TokenStarts(s)} \ {0}

-----------------------------------------------------------------------------
(* The sources of Spec. *)

\* a digit run above INT64_MAX
BigRun ==
    <<"9", "9", "9", "9", "9", "9", "9", "9", "9", "9",
      "9", "9", "9", "9", "9", "9", "9", "9", "9", "9">>

Pieces ==
    { BigRun, <<"1", "h", " ">>, <<"2", "h">>, <<" ">>, <<"-">>, <<"9", "0">>,
      <<"m">>,
      <<"5", "m", "i", "n">>, <<"2", "H">>, <<"3", "s">>, <<"1", "m", "o">>,
      <<"2", "s", "e", "c", "o", "n", "d", "s">> }

RECURSIVE Concats(_)
Concats(n) ==
    IF n = 0 THEN {<<>>}
    ELSE LET prev == Concats(n - 1)
         IN  prev \cup {p \o q : p \in prev, q \in Pieces}

\* every entry's contribution multiplier * value, and so the total Parse
\* returns, stays at most MaxTotal
InRange(s) ==
    LET res == ScanTokens(s).res
        n   == Cardinality(DOMAIN res)
    IN  \A k \in DOMAIN res : k > 0 => res[k] <= (MaxTotal \div n) \div k

Sources == {s \in Concats(MaxPieces) : InRange(s)}

-----------------------------------------------------------------------------
(* Spec: one call of Parse(from). *)

Unbuilt == [built |-> FALSE]

NoStr == <<"none">>

NoCmp == [done |-> FALSE]

Init ==
    /\ from \in Sources
    /\ m_Start = 0
    /\ m_Current = 0
    /\ m_Result = EmptyResult
    /\ Result = EmptyResult
    /\ visited = {}
    /\ TotalDuration = 0
    /\ pc = "scan"
    /\ a = Unbuilt /\ b = Unbuilt
    /\ callA = <<>> /\ callB = <<>>
    /\ str = NoStr
    /\ cmp = NoCmp

\* ScanTokens: one iteration of while (!AtEnd()) { m_Start = m_Current; ScanToken(); }
\* pc = "threw": std::out_of_range has left ScanTokens and Parse
ScanStep ==
    /\ pc = "scan"
    /\ ~AtEnd(from, m_Current)
    /\ m_Start' = m_Current
    /\ \E t \in {ScanToken(from, m_Current, m_Result)} :
           /\ m_Current' = t.cur
           /\ m_Result' = t.res
           /\ pc' = IF t.threw THEN "threw" ELSE "scan"
    /\ UNCHANGED <<from, Result, visited, TotalDuration>>
    /\ UNCHANGED valueVars

\* ScanTokens: the loop ends, return m_Result
ScanReturn ==
    /\ pc = "scan"
    /\ AtEnd(from, m_Current)
    /\ Result' = m_Result
    /\ pc' = "sum"
    /\ UNCHANGED <<from, m_Start, m_Current, m_Result, visited, TotalDuration>>
    /\ UNCHANGED valueVars

\* Parse: one iteration of the range-for, TotalDuration += Multiplier * Value
SumStep ==
    /\ pc = "sum"
    /\ DOMAIN Result \ visited # {}
    /\ LET Multiplier == NextKey(Result, visited)
           Value      == Result[Multiplier]
       IN  /\ TotalDuration' = TotalDuration + Multiplier * Value
           /\ visited' = visited \cup {Multiplier}
    /\ UNCHANGED <<from, m_Start, m_Current, m_Result, Result, pc>>
    /\ UNCHANGED valueVars

\* Parse: return TotalDuration
ParseReturn ==
    /\ pc = "sum"
    /\ DOMAIN Result \ visited = {}
    /\ pc' = "done"
    /\ UNCHANGED scanVars
    /\ UNCHANGED valueVars

Next == ScanStep \/ ScanReturn \/ SumStep \/ ParseReturn

Spec == Init /\ [][Next]_vars

\* the call runs to its end: no step of it waits on anything
FairSpec == Spec /\ WF_vars(Next)

-----------------------------------------------------------------------------
(* Properties of Parse and the scanner (Spec, FairSpec). *)

Scanned == pc \in {"sum", "done"}

\* the scanner is about to scan the token that starts at position i
AtToken(i) == pc = "scan" /\ i \in TokenStarts(from) /\ m_Current = i - 1

\* the tokens of s, last first, a space after each
RECURSIVE ReversedTokens(_, _)
ReversedTokens(s, starts) ==
    IF starts = {} THEN <<>>
    ELSE LET i == CHOOSE x \in starts : \A y \in starts : y <= x
         IN  TokenText(s, i) \o <<" ">> \o ReversedTokens(s, starts \ {i})

\* s without the token that starts at i
WithoutToken(s, i) == SubSeq(s, 1, i - 1) \o SubSeq(s, TokenEnd(s, i) + 1, Len(s))

\* C3: tokens accumulate by addition.  When ScanTokens has returned, the
\* accumulator has exactly one entry per multiplier some token resolves to,
\* and it holds the sum of the values of all tokens resolving to it (bare
\* numbers share the entry of "m"/"minutes"); Parse returns the sum of
\* multiplier * value over the entries, and the same for the tokens taken in
\* the reverse order.
C3_AccumulateByAddition ==
    /\ Scanned =>
          /\ DOMAIN Result = Multipliers(from)
          /\ \A k \in DOMAIN Result : Result[k] = TokenSum(from, k)
    /\ pc = "done" =>
          /\ TotalDuration = SumFn([k \in Multipliers(from) |-> k * TokenSum(from, k)])
          /\ TotalDuration = Parse(ReversedTokens(from, TokenStarts(from)))

\* C3 witness: two tokens with different literals of one multiplier were summed
C3_Witness ==
    /\ pc = "done"
    /\ \E i, j \in TokenStarts(from) :
          /\ i # j
          /\ TokenLiteral(from, i) # TokenLiteral(from, j)
          /\ TokenMultiplier(from, i) = TokenMultiplier(from, j)
          /\ TokenMultiplier(from, i) \in DOMAIN Result
          /\ TokenValue(from, i) > 0 /\ TokenValue(from, j) > 0
          /\ Result[TokenMultiplier(from, i)] = TokenValue(from, i) + TokenValue(from, j)

Src1h2h == <<"1", "h", " ", "2", "h">>

\* C4 as stated: Parse("1h 2h") returns 7200.
C4_Original == (pc = "done" /\ from = Src1h2h) => TotalDuration = 7200

\* C4 as amended: Parse("1h 2h") returns 10800, the hour tokens 1 and 2
\* summing to 3 hours.
C4_Amended ==
    (pc = "done" /\ from = Src1h2h) => (TotalDuration = 10800 /\ Result = (3600 :> 3))

\* C4 witness: Parse("1h 2h") has returned
C4_Witness == pc = "done" /\ from = Src1h2h

\* the digit run of the token at i denotes a value std::stoll can return
Fits(s, i) == ~StollThrows(SubSeq(s, i, RunEnd(s, i)))

\* the scanner never stands inside a token: every maximal digit run is the
\* number of one ScanToken call
TokensScannedWhole ==
    pc = "scan" =>
        \A i \in TokenStarts(from) :
            ~(i - 1 < m_Current /\ m_Current < TokenEnd(from, i))

\* the step scans a token to its end and adds v to the entry of multiplier k
AddsTo(k, v) ==
    /\ DOMAIN m_Result' = DOMAIN m_Result \cup {k}
    /\ m_Result'[k] = (IF k \in DOMAIN m_Result THEN m_Result[k] ELSE 0) + v
    /\ \A j \in DOMAIN m_Result \ {k} : m_Result'[j] = m_Result[j]

\* C7 as stated: default unit.  Every maximal digit run is the number of one
\* ScanToken call; the call on a run that no letter follows raises no error,
\* adds the run's value to the entry of multiplier 60 and stops right after
\* the run; Parse("90") = 5400.
C7_Original ==
    /\ []TokensScannedWhole
    /\ []((pc = "done" /\ from = <<"9", "0">>) => TotalDuration = 5400)
    /\ [][\A i \in TokenStarts(from) :
            (AtToken(i) /\ IsBare(from, i)) =>
                /\ pc' = "scan"
                /\ m_Current' = RunEnd(from, i)
                /\ AddsTo(60, TokenValue(from, i))]_vars

\* C7 as amended: the same for every run that denotes at most INT64_MAX; on
\* a longer run std::stoll throws std::out_of_range, which leaves ScanTokens
\* and Parse with the accumulator as it was.
C7_Amended ==
    /\ []TokensScannedWhole
    /\ []((pc = "done" /\ from = <<"9", "0">>) => TotalDuration = 5400)
    /\ [][\A i \in TokenStarts(from) :
            (AtToken(i) /\ IsBare(from, i)) =>
                IF Fits(from, i)
                THEN /\ pc' = "scan"
                     /\ m_Current' = RunEnd(from, i)
                     /\ AddsTo(60, TokenValue(from, i))
                ELSE /\ pc' = "threw"
                     /\ m_Current' = RunEnd(from, i)
                     /\ m_Result' = m_Result]_vars

\* C7 witness: a digit run followed by a non-letter was counted as minutes
C7_Witness ==
    /\ pc = "done"
    /\ \E i \in TokenStarts(from) :
          /\ IsBare(from, i)
          /\ TokenEnd(from, i) < Len(from)
          /\ TokenValue(from, i) > 0
          /\ TokensOf(from, 60) = {i}
          /\ Result[60] = TokenValue(from, i)
          /\ TotalDuration >= 60 * TokenValue(from, i)

\* the results of a finished Parse on a source with unknown-unit tokens
UnknownIgnoredInTotal ==
    pc = "done" =>
        /\ \A i \in TokenStarts(from) :
              IsUnknown(from, i) => Parse(WithoutToken(from, i)) = TotalDuration
        /\ (\A i \in TokenStarts(from) : IsUnknown(from, i)) =>
              (TotalDuration = 0 /\ Result = EmptyResult)

\* C8 as stated: unknown units are dropped.  The ScanToken call on a token
\* whose literal is not a key of the unit table raises no error, leaves the
\* accumulator unchanged and stops after the whole token; Parse of the
\* source equals Parse of the source without that token; a source of such
\* tokens only parses to 0 with an empty accumulator.
C8_Original ==
    /\ []UnknownIgnoredInTotal
    /\ []((\A i \in TokenStarts(from) : IsUnknown(from, i)) => pc # "threw")
    /\ [][\A i \in TokenStarts(from) :
            (AtToken(i) /\ IsUnknown(from, i)) =>
                (pc' = "scan" /\ m_Result' = m_Result
                    /\ m_Current' = TokenEnd(from, i))]_vars

\* C8 as amended: the same for every such token whose digit run denotes at
\* most INT64_MAX; on a longer run std::stoll throws std::out_of_range before
\* the literal is looked up, and a source of unknown-unit tokens only parses
\* to 0 when Parse returns.
C8_Amended ==
    /\ []UnknownIgnoredInTotal
    /\ []((\A i \in TokenStarts(from) : IsUnknown(from, i) /\ Fits(from, i))
            => pc # "threw")
    /\ [][\A i \in TokenStarts(from) :
            (AtToken(i) /\ IsUnknown(from, i)) =>
                /\ m_Result' = m_Result
                /\ m_Current' = TokenEnd(from, i)
                /\ pc' = IF Fits(from, i) THEN "scan" ELSE "threw"]_vars

\* C8 witness: a source with an unknown-unit token and a known one was parsed
C8_Witness ==
    /\ pc = "done"
    /\ TotalDuration > 0
    /\ \E i, j \in TokenStarts(from) :
          /\ IsUnknown(from, i) /\ i < j /\ TokenValue(from, i) > 0
          /\ TokenMultiplier(from, j) # 0 /\ TokenValue(from, j) > 0

HasDigit(s) == \E i \in 1..Len(s) : isdigit(s[i])

\* each iteration starts where the previous one stopped and moves the cursor
\* forward by at least one
CursorAdvances ==
    (pc = "scan" /\ pc' \in {"scan", "threw"}) =>
        (m_Start' = m_Current /\ m_Current' > m_Current)

CursorInBounds == m_Start <= m_Current /\ m_Current <= Len(from)

\* C10 as stated: ScanTokens terminates.  The loop is left; every iteration
\* starts where the previous one stopped and moves the cursor forward by at
\* least one; m_Start <= m_Current <= length at every step; the scan ends
\* with the cursor at the length of the source; a source without digits
\* leaves the accumulator empty.
C10_Original ==
    /\ <>(pc # "scan")
    /\ []CursorInBounds
    /\ [](pc # "scan" => m_Current = Len(from))
    /\ [](~HasDigit(from) => m_Result = EmptyResult)
    /\ [][CursorAdvances]_vars

\* C10 as amended: the same, but the scan ends with the cursor at the length
\* of the source when ScanTokens returns; when a digit run denotes more than
\* INT64_MAX the scan is ended by std::out_of_range at the first such token,
\* the cursor at the end of that token.
C10_Amended ==
    /\ <>(pc # "scan")
    /\ []CursorInBounds
    /\ [](Scanned => m_Current = Len(from))
    /\ [](pc = "threw" =>
            \E i \in TokenStarts(from) :
                /\ ~Fits(from, i)
                /\ m_Start = i - 1 /\ m_Current = TokenEnd(from, i)
                /\ \A j \in TokenStarts(from) : j < i => Fits(from, j))
    /\ []((\A i \in TokenStarts(from) : Fits(from, i)) => pc # "threw")
    /\ [](~HasDigit(from) => m_Result = EmptyResult)
    /\ [][CursorAdvances]_vars

\* C10 witness: a scan of several iterations over a source with tokens has ended
C10_Witness ==
    /\ pc = "sum"
    /\ Len(from) >= 5
    /\ Cardinality(TokenStarts(from)) >= 2
    /\ m_Start < m_Current
    /\ m_Current = Len(from)

-----------------------------------------------------------------------------
(* ValueSpec: two objects, each built once by one of the construction      *)
(* paths, then a.toString() and a <=> b.                                   *)

ComponentArgs ==
    {<<s, m, h, d>> : s \in {-1, 0, 1, 60}, m \in {0, 1, 90}, h \in {0, 1}, d \in {0, 1}}

RawTotals ==
    {sign * (86400 * d + 3600 * h + 60 * m + s) :
        sign \in {1, -1}, d \in {0, 1, MaxDays}, h \in {0, 1, 23},
        m \in {0, 1, 30}, s \in {0, 59}}

Texts ==
    { <<>>,
      <<"9", "0">>,
      <<"9", "0", "m">>,
      <<"5", "m", "i", "n">>,
      <<"1", "h", " ", "2", "h">>,
      <<"2", "h", " ", "3", "0", "m", " ", "1", "5", "s">>,
      <<"1", "d", " ", "2", "h", " ", "3", "m", " ", "4", "s">>,
      <<"1", "m", "o", " ", "2", "d">>,
      <<"1", "y", " ", "2", "d", "a", "y", "s">>,
      BigRun \o <<"s">> }

ValueInit ==
    /\ from = <<>>
    /\ m_Start = 0
    /\ m_Current = 0
    /\ m_Result = EmptyResult
    /\ Result = EmptyResult
    /\ visited = {}
    /\ TotalDuration = 0
    /\ pc = "value"
    /\ a = Unbuilt /\ b = Unbuilt
    /\ callA = <<>> /\ callB = <<>>
    /\ str = NoStr
    /\ cmp = NoCmp

\* a is built first and once, b after it and once
CanStore(slot) ==
    /\ pc = "value"
    /\ IF slot = "a" THEN a = Unbuilt ELSE a # Unbuilt /\ b = Unbuilt

\* the object a constructor call returned is stored in the slot
Store(slot, obj, call) ==
    /\ IF slot = "a"
       THEN a' = obj /\ callA' = call /\ UNCHANGED <<b, callB>>
       ELSE b' = obj /\ callB' = call /\ UNCHANGED <<a, callA>>
    /\ UNCHANGED <<str, cmp, pc>>
    /\ UNCHANGED scanVars

ConstructComponents(slot) ==
    /\ CanStore(slot)
    /\ \E args \in ComponentArgs :
          Store(slot, CtorComponents(args[1], args[2], args[3], args[4]),
                <<"components">> \o args)

ConstructText(slot) ==
    /\ CanStore(slot)
    /\ \E text \in Texts :
          ~ParseThrows(text) /\ Store(slot, CtorText(text), <<"text", text>>)

ConstructSeconds(slot) ==
    /\ CanStore(slot)
    /\ \E T \in RawTotals : Store(slot, CtorSeconds(T), <<"seconds", T>>)

CallParseFactory(slot) ==
    /\ CanStore(slot)
    /\ \E text \in Texts :
          ~ParseThrows(text) /\ Store(slot, ParseFactory(text), <<"factory", text>>)

\* str = a.toString()
CallToString ==
    /\ pc = "value"
    /\ a # Unbuilt /\ b = Unbuilt /\ str = NoStr
    /\ str' = toString(a)
    /\ UNCHANGED <<a, b, callA, callB, cmp, pc>>
    /\ UNCHANGED scanVars

\* b = CTimePeriod(str), the text a.toString() returned
ConstructFromString ==
    /\ CanStore("b")
    /\ str # NoStr
    /\ ~ParseThrows(str)
    /\ Store("b", CtorText(str), <<"text", str>>)

\* cmp = the results of a == b and a <=> b
Compare ==
    /\ pc = "value"
    /\ a # Unbuilt /\ b # Unbuilt /\ cmp = NoCmp
    /\ cmp' = [done |-> TRUE, eq |-> Equals(a, b), ord |-> Spaceship(a, b)]
    /\ UNCHANGED <<a, b, callA, callB, str, pc>>
    /\ UNCHANGED scanVars

ValueNext ==
    \/ \E slot \in {"a", "b"} : ConstructComponents(slot)
    \/ \E slot \in {"a", "b"} : ConstructText(slot)
    \/ \E slot \in {"a", "b"} : ConstructSeconds(slot)
    \/ \E slot \in {"a", "b"} : CallParseFactory(slot)
    \/ CallToString
    \/ ConstructFromString
    \/ Compare

ValueSpec == ValueInit /\ [][ValueNext]_vars

-----------------------------------------------------------------------------
(* Properties of CTimePeriod values (ValueSpec). *)

Objects == {o \in {a, b} : o # Unbuilt}

\* the components toString() is to show: those that are not zero, in the
\* order days, hours, minutes, seconds; "0s" when all are zero
Emitted(p) ==
    LET d  == IF p.m_Days # 0 THEN <<Format(p.m_Days) \o <<"d">>>> ELSE <<>>
        h  == IF p.m_Hours # 0 THEN <<Format(p.m_Hours) \o <<"h">>>> ELSE <<>>
        m  == IF p.m_Minutes # 0 THEN <<Format(p.m_Minutes) \o <<"m">>>> ELSE <<>>
        se == IF p.m_Seconds # 0 THEN <<Format(p.m_Seconds) \o <<"s">>>> ELSE <<>>
        all == d \o h \o m \o se
    IN  IF all = <<>> THEN <<<<"0", "s">>>> ELSE all

\* the parts, one space between neighbours and none after the last
RECURSIVE JoinSpace(_)
JoinSpace(parts) ==
    IF Len(parts) = 1 THEN parts[1]
    ELSE parts[1] \o <<" ">> \o JoinSpace(Tail(parts))

\* C1: for a non-negative total, toString() returns the non-zero components
\* in the order days, hours, minutes, seconds, one space after each but the
\* last, and no space at the end.
C1_ToStringLayout ==
    (str # NoStr /\ a.m_TotalDuration >= 0) =>
        (str = JoinSpace(Emitted(a)) /\ str[Len(str)] # " ")

ComponentIdentity(o) ==
    o.m_Days * 86400 + o.m_Hours * 3600 + o.m_Minutes * 60 + o.m_Seconds
        = o.m_TotalDuration

\* C2 as stated: every constructed value, whatever its total, satisfies the
\* component identity and 0 <= hours < 24, 0 <= minutes < 60, 0 <= seconds < 60.
C2_Original ==
    \A o \in Objects :
        /\ ComponentIdentity(o)
        /\ 0 <= o.m_Hours /\ o.m_Hours < 24
        /\ 0 <= o.m_Minutes /\ o.m_Minutes < 60
        /\ 0 <= o.m_Seconds /\ o.m_Seconds < 60

\* C2 as amended: every constructed value satisfies the component identity;
\* a non-negative total gives days >= 0 and hours, minutes, seconds in
\* 0..23, 0..59, 0..59; a negative total gives days <= 0 and hours, minutes,
\* seconds in -23..0, -59..0, -59..0 (division truncates toward zero).
C2_Amended ==
    \A o \in Objects :
        /\ ComponentIdentity(o)
        /\ o.m_TotalDuration >= 0 =>
              /\ o.m_Days >= 0
              /\ 0 <= o.m_Hours /\ o.m_Hours < 24
              /\ 0 <= o.m_Minutes /\ o.m_Minutes < 60
              /\ 0 <= o.m_Seconds /\ o.m_Seconds < 60
        /\ o.m_TotalDuration < 0 =>
              /\ o.m_Days <= 0
              /\ -24 < o.m_Hours /\ o.m_Hours <= 0
              /\ -60 < o.m_Minutes /\ o.m_Minutes <= 0
              /\ -60 < o.m_Seconds /\ o.m_Seconds <= 0

\* C2 witness: values of all four construction paths exist, one of a negative
\* total with a negative hours component, one of a total of a day and more
C2_Witness ==
    /\ a # Unbuilt /\ b # Unbuilt
    /\ callA[1] = "seconds" /\ a.m_TotalDuration < 0 /\ a.m_Hours < 0 /\ a.m_Seconds < 0
    /\ callB[1] \in {"text", "factory"} /\ b.m_Days > 0 /\ b.m_Hours > 0 /\ b.m_Seconds > 0

Construct60 == {<<"components", 60, 0, 0, 0>>, <<"seconds", 60>>}

\* C5 as stated: construct(60) == construct(1, 0, 0, 0).
C5_Original ==
    (cmp.done /\ callA \in Construct60 /\ callB = <<"components", 1, 0, 0, 0>>)
        => cmp.eq

\* C5 as amended: construct(60) == construct(0, 1, 0, 0), the arguments being
\* (seconds, minutes, hours, days): one minute equals 60 seconds.
C5_Amended ==
    (cmp.done /\ callA \in Construct60 /\ callB = <<"components", 0, 1, 0, 0>>)
        => (cmp.eq /\ cmp.ord = "equal")

\* C5 witness: construct(60) was compared with construct(0, 1, 0, 0)
C5_Witness ==
    cmp.done /\ callA = <<"components", 60, 0, 0, 0>>
             /\ callB = <<"components", 0, 1, 0, 0>>

\* C6: format/parse round trip.  For a value of non-negative total T,
\* Parse(toString()) = T, and the value constructed from the string has the
\* total T and compares equal to the original.
C6_RoundTrip ==
    (str # NoStr /\ a.m_TotalDuration >= 0) =>
        /\ Parse(str) = a.m_TotalDuration
        /\ (b # Unbuilt /\ callB = <<"text", str>>) =>
              (b.m_TotalDuration = a.m_TotalDuration /\ Equals(a, b))
        /\ (cmp.done /\ callB = <<"text", str>>) => cmp.eq

\* C6 witness: a total of 28 days or more with a zero seconds component went
\* through toString() and the string constructor
C6_Witness ==
    /\ cmp.done /\ callB = <<"text", str>>
    /\ a.m_Days >= 28 /\ a.m_Hours > 9 /\ a.m_Minutes > 9 /\ a.m_Seconds = 0
    /\ b.m_TotalDuration = a.m_TotalDuration

\* C6 witness of the zero total: "0s" parsed back to 0
C6_WitnessZero ==
    /\ b # Unbuilt /\ callB = <<"text", str>>
    /\ str = <<"0", "s">> /\ a.m_TotalDuration = 0 /\ b.m_TotalDuration = 0

\* C9: equality and ordering are decided by the totals alone: a == b iff the
\* totals are equal, and a <=> b is the order of the totals, however the two
\* values were constructed.
C9_CompareByTotal ==
    cmp.done =>
        /\ cmp.eq <=> (a.m_TotalDuration = b.m_TotalDuration)
        /\ (cmp.ord = "less") <=> (a.m_TotalDuration < b.m_TotalDuration)
        /\ (cmp.ord = "greater") <=> (a.m_TotalDuration > b.m_TotalDuration)
        /\ (cmp.ord = "equal") <=> cmp.eq

\* C9 witness: two values built by different construction paths have one
\* total and compare equal
C9_Witness ==
    /\ cmp.done /\ cmp.eq
    /\ callA[1] = "components" /\ callB[1] = "text"
    /\ a.m_TotalDuration > 0

\* C9 witness of the order: the smaller total has the larger seconds component
C9_WitnessLess ==
    /\ cmp.done /\ cmp.ord = "less"
    /\ a.m_Seconds > b.m_Seconds /\ a.m_TotalDuration >= 0

=============================================================================
